---------------------------- MODULE Spec2Model ----------------------------
(***************************************************************************)
(* Protocol layer of DataFrameClient                                       *)
(* (src/nisystemlink/clients/dataframe/_data_frame_client.py):             *)
(*   - the retry policy the class decorator puts around every request,     *)
(*     with the attempt counter each request gets and the backoff object   *)
(*     the decorator keeps for all of them,                                *)
(*   - the requests the operations send and what they do to the tables     *)
(*     and rows the service holds,                                         *)
(*   - the export stream built over response.iter_content(4096).           *)
(* Every operation goes through the same three steps (Invoke, AttemptEnds, *)
(* Resend).  SpecRetry, SpecConc and SpecExport look at one part each,     *)
(* over one set of variables; Spec is all of them together.                *)
(***************************************************************************)
EXTENDS Integers, Sequences, FiniteSets

VARIABLES
    op,          \* op[c]: the client operation call c performs
    args,        \* args[c]: the arguments call c passes to the operation
    transport,   \* the outcomes the transport can produce for one attempt
    enforcing,   \* whether the HTTP library checks a body against Content-Length
    pc,          \* pc[c]: "unused" | "idle" | "sending" | "backoff" | "done"
    sent,        \* sent[c]: number of HTTP requests issued for call c
    hist,        \* hist[c]: the outcomes of call c's attempts, in order
    result,      \* result[c]: what the call hands to its caller (<<>> until done)
    stopCount,   \* stopCount[t]: attempt counter of retry template t
    waits,       \* waits[c]: which delays of the backoff sequence call c slept
    backoff,     \* delays drawn from the decorator's backoff iterator (0: none yet)
    stream,      \* stream[c]: the export stream the call returned, if any
    store        \* what the service holds: the tables, and the rows of one

callVars == <<op, args, pc, sent, hist, result, stopCount, waits>>

envVars == <<transport, enforcing>>

vars == <<callVars, backoff, envVars, stream, store>>

\* Optional[T]: None, or one value.
None == << >>

Some(x) == <<x>>

Min(a, b) ==
    IF a <= b THEN a ELSE b

Range(s) ==
    {s[i] : i \in 1..Len(s)}

Last(s) ==
    s[Len(s)]

----------------------------------------------------------------------------
(* Calls and operations *)

\* Threads of the caller that may each have one call in progress.
Calls == {"c1", "c2"}

\* The operations DataFrameClient declares.
Operations ==
    {"api_info", "list_tables", "create_table", "query_tables",
     "get_table_metadata", "modify_table", "delete_table", "delete_tables",
     "modify_tables", "get_table_data", "append_table_data",
     "query_table_data", "query_decimated_data", "export_table_data"}

\* The arguments of a call: the table it names, the identifiers of a bulk
\* call, and the paging arguments of a list/query call.
Args(id, ids, take, desc, token) ==
    [id |-> id, ids |-> ids, take |-> take, desc |-> desc, token |-> token]

----------------------------------------------------------------------------
(* Attempt outcomes *)

\* HTTP statuses the transport answers with in the model.  200 stands for
\* "the request reached the service": the service's own answer follows.
Statuses == {200, 404, 429, 500, 502, 503, 504}

\* Exception classes an attempt can raise.  ConnectTimeout derives from
\* ConnectionError; ReadTimeout derives from Timeout only; InvalidURL is
\* unrelated to connectivity.
Exceptions == {"ConnectionError", "ConnectTimeout", "ReadTimeout", "InvalidURL"}

\* The classes an exception class derives from (itself included).
Bases(exc) ==
    CASE exc = "ConnectionError" -> {"ConnectionError", "RequestException"}
      [] exc = "ConnectTimeout"  -> {"ConnectTimeout", "ConnectionError",
                                     "Timeout", "RequestException"}
      [] exc = "ReadTimeout"     -> {"ReadTimeout", "Timeout", "RequestException"}
      [] OTHER                   -> {exc, "RequestException"}

\* The bytes of a response body, given by its length and byte pattern:
\* byte i is (i + seed) % 251, so no two 4096-byte chunks of a body are
\* equal.
ExportBody(len, seed) ==
    [i \in 1..len |-> (i + seed) % 251]

\* What the transport has to say about a body: its length and pattern (as
\* the content the HTTP library hands over, any Content-Encoding undone);
\* whether it is sent under Content-Length or in chunks (Transfer-Encoding:
\* chunked); and, when the peer closes the connection early, how many bytes
\* of it arrive.
Body(len, seed, framing, cut) ==
    [len |-> len, seed |-> seed, framing |-> framing, cut |-> cut]

NoBody ==
    Body(0, 0, "length", None)

\* The bytes of body d that arrive.
Arrived(d) ==
    IF d.cut = None THEN d.len ELSE d.cut[1]

\* Reading a body from a connection the peer closed early raises: always
\* for a chunked body (its last chunk never comes), and under
\* Content-Length when bytes are missing and the HTTP library checks the
\* length.  Otherwise the body just ends where the connection did.
CutRaises(d, enforced) ==
    /\ d.cut # None
    /\ \/ d.framing = "chunked"
       \/ enforced /\ d.cut[1] < d.len

Response(status, body) ==
    [kind |-> "response", status |-> status, exc |-> "", body |-> body]

Raised(exc) ==
    [kind |-> "exception", status |-> 0, exc |-> exc, body |-> NoBody]

\* Every outcome of one attempt of an operation that returns no byte stream.
PlainOutcomes ==
    {Response(s, NoBody) : s \in Statuses} \cup {Raised(e) : e \in Exceptions}

\* The request reached the service.
Served(o) ==
    o.kind = "response" /\ o.status = 200

\* "Raises: ApiException: if unable to communicate with the DataFrame
\* Service or provided an invalid argument."
IsFailure(o) ==
    o.kind = "exception" \/ o.status >= 400

----------------------------------------------------------------------------
(* @retry(when=..., stop=..., on_exception=...) *)

\* Python values as far as the status test needs them: an int or a list.
\* Values of different types are never equal.
PyInt(n) ==
    [type |-> "int", int |-> n, list |-> << >>]

PyList(s) ==
    [type |-> "list", int |-> 0, list |-> s]

\* x in seq
PyIn(x, seq) ==
    \E i \in 1..Len(seq) : seq[i] = x

\* The positional arguments retry.when.status is called with: one, a list.
StatusArgs ==
    <<PyList(<<429, 502, 503, 504>>)>>

MaxAttempt == 5

when_status_mut404(o) ==
    o.kind = "response" /\ o.status \in Range(StatusArgs[1].list) \cup {404}

\* when=retry.when.status([429, 502, 503, 504]): status(*status_codes) keeps
\* the tuple of its positional arguments and retries a response when
\* response.status_code in status_codes.  The tuple here has one element,
\* the list, and no status code equals a list.
when_status(o) ==
    o.kind = "response" /\ PyIn(PyInt(o.status), StatusArgs)

raises_mutAny(o) ==
    o.kind = "exception"

\* on_exception=retry.CONNECTION_ERROR
raises(o) ==
    o.kind = "exception" /\ "ConnectionError" \in Bases(o.exc)

after_attempt_mutOffByOne(attempt) ==
    MaxAttempt < attempt

\* stop=retry.stop.after_attempt(5): asked after each attempt, with the
\* number of attempts made so far.
after_attempt(attempt) ==
    MaxAttempt <= attempt

\* The decorator hands every invocation a retry template of its own, and with
\* it an attempt counter of its own.
template_of(c) ==
    c

\* @retry is given no backoff argument, so the decorator makes one backoff
\* object (retry.backoff.jittered()) and hands that same object to the
\* template of every request.  The object keeps the iterator over its delay
\* sequence: a retry takes the next delay from it, and the end of a call,
\* any call, drops it so that the next retry starts the sequence afresh.
\* pos is the number of delays taken since the iterator was made.
backoff_next(pos) ==
    pos + 1

backoff_after_final_retry(pos) ==
    0

\* The retry condition: on_exception | when.
should_retry(o) ==
    raises(o) \/ when_status(o)

----------------------------------------------------------------------------
(* The requests the operations send *)

Req(method, path, id, params, body) ==
    [method |-> method, path |-> path, id |-> id, params |-> params,
     body |-> body]

\* @get("")
api_info ==
    Req("GET", "", None, None, None)

\* @get("tables", args=[Query("take"), Query("id"), Query("orderBy"),
\*      Query("orderByDescending"), Query("continuationToken"),
\*      Query("workspace")])
\* The id, orderBy and workspace filters are the same on every page and are
\* left out of the request record.
list_tables(take, id, order_by, order_by_descending, continuation_token, workspace) ==
    Req("GET", "tables", None,
        [take |-> take, orderByDescending |-> order_by_descending,
         continuationToken |-> continuation_token],
        None)

\* @post("tables", return_key="id")
create_table(table) ==
    Req("POST", "tables", None, None, table)

\* @post("query-tables"): the query object is the request body as it is.
query_tables(query) ==
    Req("POST", "query-tables", None, None, query)

\* @get("tables/{id}")
get_table_metadata(id) ==
    Req("GET", "tables/{id}", Some(id), None, None)

\* @patch("tables/{id}", args=[Path, Body])
modify_table(id, update) ==
    Req("PATCH", "tables/{id}", Some(id), None, update)

\* @delete("tables/{id}")
delete_table(id) ==
    Req("DELETE", "tables/{id}", Some(id), None, None)

\* @post("delete-tables", args=[Field("ids")]): the list goes out as the
\* "ids" field of the body.
delete_tables(ids) ==
    Req("POST", "delete-tables", None, None, [ids |-> ids])

\* @post("modify-tables"): the updates object is the request body as it is.
modify_tables(updates) ==
    Req("POST", "modify-tables", None, None, updates)

\* @get("tables/{id}/data", args=[Path("id"), Query("columns"),
\*      Query("orderBy"), Query("orderByDescending"), Query("take"),
\*      Query("continuationToken")])
get_table_data(id, columns, order_by, order_by_descending, take, continuation_token) ==
    Req("GET", "tables/{id}/data", Some(id),
        [take |-> take, orderByDescending |-> order_by_descending,
         continuationToken |-> continuation_token],
        None)

\* @post("tables/{id}/data", args=[Path, Body])
append_table_data(id, data) ==
    Req("POST", "tables/{id}/data", Some(id), None, data)

\* @post("tables/{id}/query-data", args=[Path, Body])
query_table_data(id, query) ==
    Req("POST", "tables/{id}/query-data", Some(id), None, query)

\* @post("tables/{id}/query-decimated-data", args=[Path, Body])
query_decimated_data(id, query) ==
    Req("POST", "tables/{id}/query-decimated-data", Some(id), None, query)

\* @post("tables/{id}/export-data", args=[Path, Body])
export_table_data(id, query) ==
    Req("POST", "tables/{id}/export-data", Some(id), None, query)

\* The query object a caller of the two query operations fills in.
QueryRequest(take, order_by_descending, continuation_token) ==
    [take |-> take, orderByDescending |-> order_by_descending,
     continuationToken |-> continuation_token]

\* The updates object a caller of modify_tables fills in: one entry per
\* table to modify.
ModifyTablesRequest(ids) ==
    [tables |-> [k \in 1..Len(ids) |-> [id |-> ids[k], properties |-> "p"]],
     replace |-> FALSE]

\* The request call arguments a make operation o send.
Request(o, a) ==
    CASE o = "api_info" -> api_info
      [] o = "list_tables" ->
            list_tables(a.take, None, None, a.desc, a.token, None)
      [] o = "create_table" -> create_table([name |-> "t"])
      [] o = "query_tables" ->
            query_tables(QueryRequest(a.take, a.desc, a.token))
      [] o = "get_table_metadata" -> get_table_metadata(a.id)
      [] o = "modify_table" -> modify_table(a.id, [properties |-> "p"])
      [] o = "delete_table" -> delete_table(a.id)
      [] o = "delete_tables" -> delete_tables(a.ids)
      [] o = "modify_tables" -> modify_tables(ModifyTablesRequest(a.ids))
      [] o = "get_table_data" ->
            get_table_data(a.id, None, None, a.desc, a.take, a.token)
      [] o = "append_table_data" -> append_table_data(a.id, [frame |-> "row"])
      [] o = "query_table_data" ->
            query_table_data(a.id, QueryRequest(a.take, a.desc, a.token))
      [] o = "query_decimated_data" ->
            query_decimated_data(a.id, [decimation |-> "d"])
      [] o = "export_table_data" ->
            export_table_data(a.id, [responseFormat |-> "CSV"])

----------------------------------------------------------------------------
(* The DataFrame service *)

\* The table whose rows the model keeps.
DataTable == 101

Answer(status, st) ==
    [status |-> status, store |-> st]

\* The identifiers a bulk request carries, in order.
RequestIds(req) ==
    IF req.path = "delete-tables"
    THEN req.body.ids
    ELSE [k \in 1..Len(req.body.tables) |-> req.body.tables[k].id]

\* The identifier the service gives a new table.
NewId(tables) ==
    IF tables = << >> THEN 101
    ELSE 1 + CHOOSE m \in Range(tables) : \A x \in Range(tables) : x <= m

\* What the service does with a request that reaches it: the status it
\* answers with, and what it holds afterwards.  What its answer says (the
\* page of a listing, the identifiers a bulk request failed on) is the
\* service's alone and is handed to the caller as it comes; it is left out.
Service(req, st) ==
    LET e       == <<req.method, req.path>>
        missing == req.id # None /\ req.id[1] \notin Range(st.tables)
    IN  IF missing THEN Answer(404, st)
        ELSE CASE e = <<"POST", "tables">> ->
                    Answer(200, [st EXCEPT !.tables = Append(@, NewId(st.tables))])
               [] e = <<"DELETE", "tables/{id}">> ->
                    Answer(204,
                           [tables |-> SelectSeq(st.tables,
                                           LAMBDA t : t # req.id[1]),
                            rows |-> IF req.id[1] = DataTable
                                     THEN << >> ELSE st.rows])
               [] e = <<"POST", "delete-tables">> ->
                    Answer(200,
                           [tables |-> SelectSeq(st.tables,
                                LAMBDA t : t \notin Range(RequestIds(req))),
                            rows |-> IF DataTable \in Range(RequestIds(req))
                                     THEN << >> ELSE st.rows])
               [] e = <<"POST", "tables/{id}/data">> ->
                    Answer(204,
                           IF req.id[1] = DataTable
                           THEN [st EXCEPT !.rows = Append(@, 201 + Len(@))]
                           ELSE st)
               [] e = <<"PATCH", "tables/{id}">> -> Answer(204, st)
               [] OTHER -> Answer(200, st)

\* The outcome of an attempt as the client sees it: the transport's, or for
\* a request that reached the service the service's status, with the bytes
\* of the body that arrived; stamped with the attempt that got it.  No
\* operation asks for its response to be streamed, so the HTTP library
\* reads the body of every response before the attempt is over, and the
\* attempt raises when that read does.
Stamp(o, ans, enforced, n) ==
    LET torn == o.kind = "response" /\ CutRaises(o.body, enforced)
    IN  [kind |-> IF torn THEN "exception" ELSE o.kind,
         status |-> IF torn THEN 0
                    ELSE IF Served(o) THEN ans.status ELSE o.status,
         exc |-> IF torn THEN "ChunkedEncodingError" ELSE o.exc,
         body |-> IF o.kind = "response" /\ ~torn
                  THEN ExportBody(Arrived(o.body), o.body.seed) ELSE << >>,
         served |-> Served(o),
         attempt |-> n]

----------------------------------------------------------------------------
(* export_table_data: the stream over response.iter_content(chunk_size=4096) *)

ChunkSize == 4096

\* Largest number of whole chunks in an export body of the model.
MaxChunks == 2

\* Reads past the end of a stream that the model counts.
MaxEndReads == 2

\* bytes cut into pieces of size bytes, the last one whatever is left.
RECURSIVE Slices(_, _)
Slices(bytes, size) ==
    IF bytes = << >>
    THEN << >>
    ELSE <<SubSeq(bytes, 1, Min(size, Len(bytes)))>>
            \o Slices(SubSeq(bytes, Min(size, Len(bytes)) + 1, Len(bytes)),
                      size)

\* response.iter_content(chunk_size) on a response whose body has been read
\* already: the chunks the iterator yields, in order.  The body is cut into
\* chunk_size bytes each, the last chunk whatever is left; an empty body
\* yields no chunk.
iter_content(response, chunk_size) ==
    Slices(response.body, chunk_size)

NoStream ==
    [state |-> "none", pending |-> << >>, chunks |-> << >>, last |-> << >>,
     endReads |-> 0]

\* IteratorFileLike(iterator): a single-pass stream over the iterator's
\* chunks; nothing is taken from the iterator until the caller reads.
IteratorFileLike(iterator) ==
    [state |-> "open", pending |-> iterator, chunks |-> << >>,
     last |-> << >>, endReads |-> 0]

iter_content_filelike_wrapper_mutChunk8192(response) ==
    IteratorFileLike(iter_content(response, 2 * ChunkSize))

\* _iter_content_filelike_wrapper(response)
iter_content_filelike_wrapper(response) ==
    IteratorFileLike(iter_content(response, ChunkSize))

----------------------------------------------------------------------------
(* One call through the retry policy *)

\* The caller invokes the operation: the invocation gets its retry template
\* and the first request goes out.
Invoke(c) ==
    /\ pc[c] = "idle"
    /\ pc' = [pc EXCEPT ![c] = "sending"]
    /\ sent' = [sent EXCEPT ![c] = 1]
    /\ hist' = [hist EXCEPT ![c] = << >>]
    /\ result' = [result EXCEPT ![c] = << >>]
    /\ stopCount' = [stopCount EXCEPT ![template_of(c)] = 0]
    /\ waits' = [waits EXCEPT ![c] = << >>]
    /\ stream' = [stream EXCEPT ![c] = NoStream]
    /\ UNCHANGED <<op, args, backoff, envVars, store>>

\* The attempt in flight ends with outcome o.  A request that reaches the
\* service is answered by it and may change what it holds.  For an outcome
\* the retry condition accepts, the next delay is taken from the
\* decorator's backoff object and the call's retry template counts the
\* attempt; unless the stop rule says so the call then sleeps that delay
\* before another attempt.  Any other outcome, and the outcome the stop
\* rule ends on, goes through to the caller, and the backoff object is told
\* that the retries are over.  An export's successful response goes through
\* its response handler, which returns the stream.
AttemptEnds(c) ==
    /\ pc[c] = "sending"
    /\ \E o \in transport :
         LET ans == Service(Request(op[c], args[c]), store)
             out == Stamp(o, ans, enforcing, sent[c])
             t   == template_of(c)
             n   == stopCount[t] + 1
         IN  /\ store' = IF Served(o) THEN ans.store ELSE store
             /\ hist' = [hist EXCEPT ![c] = Append(@, out)]
             /\ stopCount' = IF should_retry(out)
                             THEN [stopCount EXCEPT ![t] = n]
                             ELSE stopCount
             /\ IF should_retry(out) /\ ~after_attempt(n)
                THEN /\ pc' = [pc EXCEPT ![c] = "backoff"]
                     /\ backoff' = backoff_next(backoff)
                     /\ waits' = [waits EXCEPT
                                     ![c] = Append(@, backoff_next(backoff))]
                     /\ UNCHANGED <<result, stream>>
                ELSE /\ pc' = [pc EXCEPT ![c] = "done"]
                     /\ backoff' = backoff_after_final_retry(
                                       IF should_retry(out)
                                       THEN backoff_next(backoff) ELSE backoff)
                     /\ result' = [result EXCEPT ![c] = <<out>>]
                     /\ stream' = [stream EXCEPT ![c] =
                            IF op[c] = "export_table_data" /\ ~IsFailure(out)
                            THEN iter_content_filelike_wrapper(out)
                            ELSE @]
                     /\ UNCHANGED waits
    /\ UNCHANGED <<op, args, envVars, sent>>

\* The backoff delay is over: the request is sent again.
Resend(c) ==
    /\ pc[c] = "backoff"
    /\ pc' = [pc EXCEPT ![c] = "sending"]
    /\ sent' = [sent EXCEPT ![c] = @ + 1]
    /\ UNCHANGED <<op, args, envVars, hist, result, stopCount, waits>>
    /\ UNCHANGED <<backoff, stream, store>>

RetryStep ==
    \E c \in Calls : Invoke(c) \/ AttemptEnds(c) \/ Resend(c)

----------------------------------------------------------------------------
(* Reading the export stream *)

\* The caller asks the stream for its next buffer.  While the iterator has
\* chunks the next one is handed over; when it ends the stream is over, and
\* this and every later read yield nothing.
StreamRead(c) ==
    /\ stream[c].state \in {"open", "exhausted"}
    /\ IF stream[c].state = "open" /\ stream[c].pending # << >>
       THEN stream' = [stream EXCEPT
                   ![c].chunks = Append(@, Head(stream[c].pending)),
                   ![c].last = Head(stream[c].pending),
                   ![c].pending = Tail(@)]
       ELSE stream' = [stream EXCEPT
                   ![c].state = "exhausted",
                   ![c].last = << >>,
                   ![c].endReads = Min(@ + 1, MaxEndReads)]
    /\ UNCHANGED <<callVars, backoff, envVars, store>>

\* The caller drops the stream before its end.
StreamClose(c) ==
    /\ stream[c].state = "open"
    /\ stream' = [stream EXCEPT ![c].state = "closed"]
    /\ UNCHANGED <<callVars, backoff, envVars, store>>

StreamStep ==
    \E c \in Calls : StreamRead(c) \/ StreamClose(c)

----------------------------------------------------------------------------
(* Initial states *)

\* No call has sent anything yet, and no retry has taken a delay.
AtRest ==
    /\ sent = [c \in Calls |-> 0]
    /\ hist = [c \in Calls |-> << >>]
    /\ result = [c \in Calls |-> << >>]
    /\ stopCount = [c \in Calls |-> 0]
    /\ waits = [c \in Calls |-> << >>]
    /\ backoff = 0
    /\ stream = [c \in Calls |-> NoStream]

\* The arguments of a call that names table id.
PlainArgs(id) ==
    Args(id, <<101, 102>>, None, None, None)

----------------------------------------------------------------------------
(* SpecRetry: one call of any operation against any transport behaviour *)

InitRetry ==
    /\ op \in [Calls -> Operations]
    /\ op["c2"] = "api_info"
    /\ \E id \in {101, 102} : args = [c \in Calls |-> PlainArgs(id)]
    /\ transport = PlainOutcomes
    /\ enforcing = FALSE
    /\ pc = [c \in Calls |-> IF c = "c1" THEN "idle" ELSE "unused"]
    /\ AtRest
    /\ store = [tables |-> <<101>>, rows |-> <<201>>]

NextRetry ==
    RetryStep

SpecRetry ==
    InitRetry /\ [][NextRetry]_vars

----------------------------------------------------------------------------
(* SpecConc: two threads call the same client at the same time *)

\* What the transport answers in SpecConc: a request that reaches the
\* service, two statuses and two exceptions.
ConcOutcomes ==
    {Response(200, NoBody), Response(404, NoBody), Response(503, NoBody),
     Raised("ConnectionError"), Raised("ReadTimeout")}

InitConc ==
    /\ op \in [Calls -> {"list_tables", "delete_tables"}]
    /\ args = [c \in Calls |-> PlainArgs(101)]
    /\ transport = ConcOutcomes
    /\ enforcing = FALSE
    /\ pc = [c \in Calls |-> "idle"]
    /\ AtRest
    /\ store = [tables |-> <<101>>, rows |-> <<201>>]

NextConc ==
    RetryStep

SpecConc ==
    InitConc /\ [][NextConc]_vars

----------------------------------------------------------------------------
(* SpecExport: one export_table_data call and the reading of its stream *)

\* The lengths of the export bodies that arrive whole: every
\* k * ChunkSize + r with r in {0, 1, ChunkSize - 1}.
PlainLens ==
    {k * ChunkSize + r : k \in 0..MaxChunks, r \in {0, 1, ChunkSize - 1}}

\* Bodies that arrive whole.
WholeBodies ==
    {Body(n, 0, f, None) : n \in PlainLens, f \in {"length", "chunked"}}

\* Bodies of 8193 bytes whose connection the peer closes early: before the
\* first byte, inside the second chunk of 4096, and after the last byte.
CutBodies ==
    {Body(8193, 0, f, Some(k)) :
        f \in {"length", "chunked"}, k \in {0, 5000, 8193}}

\* The export bodies of the model, in one of two byte patterns.
ExportBodies ==
    {[b EXCEPT !.seed = seed] :
        b \in WholeBodies \cup CutBodies, seed \in {0, 100}}

\* What the transport answers an export request with: the service's
\* response with an export body, an error response (one of them with its
\* body cut short), or a failure to connect.
ExportOutcomes ==
    {Response(200, b) : b \in ExportBodies}
        \cup {Response(503, NoBody), Response(404, NoBody),
              Response(404, Body(120, 0, "chunked", Some(50))),
              Raised("ConnectionError")}

InitExport ==
    /\ op = [c \in Calls |-> "export_table_data"]
    /\ args = [c \in Calls |-> PlainArgs(DataTable)]
    /\ transport = ExportOutcomes
    /\ enforcing \in BOOLEAN
    /\ pc = [c \in Calls |-> IF c = "c1" THEN "idle" ELSE "unused"]
    /\ AtRest
    /\ store = [tables |-> <<DataTable>>, rows |-> <<201>>]

NextExport ==
    RetryStep \/ StreamStep

SpecExport ==
    InitExport /\ [][NextExport]_vars

----------------------------------------------------------------------------
(* The whole client: any of the parts above, from its initial states *)

Init ==
    InitRetry \/ InitConc \/ InitExport

Next ==
    RetryStep \/ StreamStep

Spec ==
    Init /\ [][Next]_vars

----------------------------------------------------------------------------
(* Retry claims *)

Is503(o) ==
    o.kind = "response" /\ o.status = 503

AllAttempts503(c) ==
    \A i \in 1..Len(hist[c]) : Is503(hist[c][i])

\* C1: no call ever issues a 6th request, and a call whose every attempt
\* returned 503 ends after exactly 5 requests (1 initial + 4 retries) with
\* the 5th attempt's 503 response as the failure handed to the caller.
C1_RetryBound ==
    \A c \in Calls :
        /\ sent[c] <= 5
        /\ (pc[c] = "done" /\ AllAttempts503(c)) =>
              /\ sent[c] = 5
              /\ Len(hist[c]) = 5
              /\ result[c] = <<hist[c][5]>>
              /\ result[c][1].attempt = 5
              /\ Is503(result[c][1])
              /\ IsFailure(result[c][1])

\* An outcome the retry policy is said never to retry: a status outside
\* {429, 502, 503, 504} (404 among them), or an exception that is neither a
\* connection error nor a timeout.
ClaimedNotRetried(o) ==
    \/ o.kind = "response" /\ o.status \notin {429, 502, 503, 504}
    \/ o.kind = "exception"
         /\ o.exc \notin {"ConnectionError", "ConnectTimeout", "ReadTimeout"}

\* C2: once the first attempt has ended with a status outside
\* {429, 502, 503, 504} or with an exception unrelated to connectivity, the
\* call is over: one request was issued, none follows, and the caller gets
\* that first outcome.
C2_RetryExclusion ==
    \A c \in Calls :
        (Len(hist[c]) >= 1 /\ ClaimedNotRetried(hist[c][1])) =>
            /\ pc[c] = "done"
            /\ sent[c] = 1
            /\ Len(hist[c]) = 1
            /\ result[c] = <<hist[c][1]>>

C2_Witness ==
    \E c \in Calls :
        /\ pc[c] = "done"
        /\ sent[c] = 1
        /\ result[c] # << >>
        /\ result[c][1].status = 404
        /\ ~result[c][1].served
        /\ IsFailure(result[c][1])

\* Retryable as C10 words it: the four statuses, connection failures, and
\* any timeout of an attempt.
RetryableAsClaimed(o) ==
    \/ o.kind = "response" /\ o.status \in {429, 502, 503, 504}
    \/ o.kind = "exception"
         /\ o.exc \in {"ConnectionError", "ConnectTimeout", "ReadTimeout"}

\* C10: after each attempt another one follows exactly when the last
\* outcome is retryable (status 429/502/503/504, a connection failure or a
\* timeout of the attempt) and fewer than 5 attempts were made; the call
\* ends at the first other outcome and returns it; a retryable failure
\* reaches the caller only as the 5th attempt's; status retries and
\* exception retries draw on one count of 5.
C10_RetryDecision ==
    \A c \in Calls :
        /\ sent[c] <= 5
        /\ Len(hist[c]) <= sent[c]
        /\ Len(hist[c]) >= 1 =>
              /\ (pc[c] \in {"backoff", "sending"})
                    <=> (RetryableAsClaimed(Last(hist[c])) /\ Len(hist[c]) < 5)
              /\ (pc[c] = "done")
                    <=> ~(RetryableAsClaimed(Last(hist[c])) /\ Len(hist[c]) < 5)
              /\ \A i \in 1..(Len(hist[c]) - 1) : RetryableAsClaimed(hist[c][i])
              /\ pc[c] = "done" =>
                    /\ result[c] = <<Last(hist[c])>>
                    /\ sent[c] = Len(hist[c])
                    /\ RetryableAsClaimed(result[c][1]) => sent[c] = 5

\* A failure to connect: ConnectionError or a class derived from it.
ConnectionFailure(o) ==
    o.kind = "exception" /\ o.exc \in {"ConnectionError", "ConnectTimeout"}

\* The delays a call that retries k times sleeps when no other call has a
\* part in them: the first k of the backoff sequence, in order.
OwnDelays(k) ==
    [i \in 1..k |-> i]

\* C9: in every interleaving of the two calls no state of one call's
\* retries is shared with the other's: each call sends at most 5 requests,
\* its attempt counter counts its own failed attempts only, after a
\* connection failure it goes on exactly when it has made fewer than 5
\* attempts itself, and the delays it sleeps between its attempts are the
\* ones it would sleep alone, whatever the other call does meanwhile.
C9_CallIndependence ==
    \A c \in Calls :
        /\ sent[c] <= 5
        /\ Len(hist[c]) <= sent[c]
        /\ stopCount[c] =
              Cardinality({i \in 1..Len(hist[c]) :
                              ConnectionFailure(hist[c][i])})
        /\ (Len(hist[c]) >= 1 /\ ConnectionFailure(Last(hist[c]))) =>
              /\ (pc[c] = "done") <=> (Len(hist[c]) = 5)
              /\ (pc[c] \in {"backoff", "sending"}) <=> (Len(hist[c]) < 5)
        /\ waits[c] = OwnDelays(Len(waits[c]))

----------------------------------------------------------------------------
(* Export claims *)

RECURSIVE Concat(_)
Concat(chunks) ==
    IF chunks = << >> THEN << >> ELSE Head(chunks) \o Concat(Tail(chunks))

\* The bytes of the body of the response the stream was built on, as they
\* reached the client.
ServedBody(c) ==
    result[c][1].body

\* C6: every buffer the stream has yielded holds at least one byte and at
\* most 4096; the buffers joined in order are the first bytes of the body
\* the client received from the service; once the stream is exhausted they
\* are the whole body, nothing is left to yield, and the read that found
\* the end, like every read after it, yielded nothing.
C6_StreamingCompleteness ==
    \A c \in Calls :
        stream[c].state # "none" =>
            LET chunks == stream[c].chunks
                got    == Concat(chunks)
            IN  /\ \A i \in 1..Len(chunks) :
                       Len(chunks[i]) >= 1 /\ Len(chunks[i]) <= 4096
                /\ Len(got) <= Len(ServedBody(c))
                /\ got = SubSeq(ServedBody(c), 1, Len(got))
                /\ stream[c].state = "exhausted" =>
                       /\ got = ServedBody(c)
                       /\ stream[c].pending = << >>
                       /\ stream[c].last = << >>

C6_Witness ==
    \E c \in Calls :
        /\ stream[c].state = "exhausted"
        /\ stream[c].endReads = 2
        /\ Len(ServedBody(c)) = 8193
        /\ Len(stream[c].chunks) = 3
        /\ Len(stream[c].chunks[1]) = 4096
        /\ Len(stream[c].chunks[3]) = 1
        /\ stream[c].chunks[1] # stream[c].chunks[2]
        /\ result[c][1].attempt = 2

=============================================================================
